---- MODULE Spec2Model ----
(***************************************************************************)
(* The open-addressing HashMap of src/hash_map_oa.py: a prime-sized slot   *)
(* array probed quadratically, deletion by tombstones, growth inside put.  *)
(* Every method is a pure operator on the record of the object's fields    *)
(* ("self"), written after the method's code; an action applies one method *)
(* to the current object.                                                  *)
(***************************************************************************)
EXTENDS Integers, Sequences, FiniteSets, TLC

\* ---------------------------------------------------------------- bounds
NumKeys == 2
NumValues == 2
MaxHash == 1
MaxInitCapacity == 3
MaxNewCapacity == 4
\* Calls that would leave a capacity above MaxCapacity are not taken.
MaxCapacity == 5
\* _is_prime is tried on -MaxPrimeArg .. MaxPrimeArg.
MaxPrimeArg == 30

\* ---------------------------------------------------------------- inputs
Keys == 1..NumKeys
Values == 1..NumValues
InitCapacities == 1..MaxInitCapacity
NewCapacities == 0..MaxNewCapacity
PrimeArgs == (0 - MaxPrimeArg)..MaxPrimeArg
\* The hash functions tried: key -> (a * key) % (MaxHash + 1) for each multiplier a.
\* a = 0 sends every key to one home slot, the others spread the keys.
HashFunctions == {[k \in Keys |-> (a * k) % (MaxHash + 1)] : a \in 0..MaxHash}

\* Python's None: what an unused slot holds and what get returns on a miss.
None == 0

\* self._index before __iter__ has assigned it.
NoIndex == 0 - 1

\* A slot of the DynamicArray that was appended as None.
EmptySlot == [key |-> None, value |-> None, is_tombstone |-> FALSE]

\* HashEntry(key, value): a fresh entry is not a tombstone.
HashEntry(key, value) == [key |-> key, value |-> value, is_tombstone |-> FALSE]

VARIABLES
    buckets,        \* self._buckets: the DynamicArray, index i held at buckets[i + 1]
    capacity,       \* self._capacity
    size,           \* self._size
    hash_function,  \* self._hash_function: key -> non-negative integer
    index,          \* self._index: the iteration cursor, NoIndex before __iter__
    fault,          \* "none", or how the last call failed to return
    last,           \* the last call: its name and arguments
    result,         \* what the last call returned
    pre             \* the object's fields when the last call was entered

vars == <<buckets, capacity, size, hash_function, index, fault, last, result, pre>>

\* The object's fields as one record, the "self" the methods work on.
Self == [buckets |-> buckets, capacity |-> capacity, size |-> size, index |-> index,
         fault |-> fault]

\* DynamicArray of n slots, each appended as None.
NewBuckets(n) == [i \in 1..n |-> EmptySlot]

\* ------------------------------------------------------------ primality
RECURSIVE is_prime_loop(_, _)
is_prime_loop(n, factor) ==
    IF factor * factor <= n
    THEN IF n % factor = 0 THEN FALSE ELSE is_prime_loop(n, factor + 2)
    ELSE TRUE

\* is_prime without the test for 1.
is_prime_accepts_one(n) ==
    IF n = 2 \/ n = 3 THEN TRUE
    ELSE IF n % 2 = 0 THEN FALSE
    ELSE is_prime_loop(n, 3)

_is_prime(n) ==
    IF n = 2 \/ n = 3 THEN TRUE
    ELSE IF n = 1 \/ n % 2 = 0 THEN FALSE
    ELSE is_prime_loop(n, 3)

RECURSIVE next_prime_loop(_)
next_prime_loop(n) == IF _is_prime(n) THEN n ELSE next_prime_loop(n + 2)

_next_prime(n) == next_prime_loop(IF n % 2 = 0 THEN n + 1 ELSE n)

\* ---------------------------------------------------------------- probing
\* (hash_val + count ** 2) % self._capacity
ProbeIndex(m, hash_val, count) == (hash_val + count * count) % m.capacity

\* table_load() >= 0.5, on the exact quotient size / capacity
LoadAtLeastHalf(m) == 2 * m.size >= m.capacity

\* table_load() > 0.5
LoadAboveHalf(m) == 2 * m.size > m.capacity

\* clear(): the buckets of a temporary HashMap(self._capacity, ...), size 0;
\* self._capacity itself is not assigned.
clear(m) == [m EXCEPT !.buckets = NewBuckets(_next_prime(m.capacity)), !.size = 0]

RECURSIVE put(_, _, _)
RECURSIVE put_loop(_, _, _, _, _)
RECURSIVE resize_table(_, _)
RECURSIVE resize_loop(_, _, _, _)

\* put_loop that finds the key and leaves its old value.
RECURSIVE put_loop_keeps_value(_, _, _, _, _)
put_loop_keeps_value(m, key, value, hash_val, count) ==
    LET start_index == ProbeIndex(m, hash_val, count) IN
    IF count >= m.capacity THEN [m EXCEPT !.fault = "nontermination"]
    ELSE IF start_index >= Len(m.buckets) THEN [m EXCEPT !.fault = "DynamicArrayException"]
    ELSE LET entry == m.buckets[start_index + 1] IN
         IF entry = EmptySlot \/ entry.is_tombstone
         THEN [m EXCEPT !.buckets[start_index + 1] = HashEntry(key, value),
                        !.size = @ + 1]
         ELSE IF entry.key = key
         THEN m
         ELSE put_loop_keeps_value(m, key, value, hash_val, count + 1)

\* put_loop that counts an update as a new entry.
RECURSIVE put_loop_counts_update(_, _, _, _, _)
put_loop_counts_update(m, key, value, hash_val, count) ==
    LET start_index == ProbeIndex(m, hash_val, count) IN
    IF count >= m.capacity THEN [m EXCEPT !.fault = "nontermination"]
    ELSE IF start_index >= Len(m.buckets) THEN [m EXCEPT !.fault = "DynamicArrayException"]
    ELSE LET entry == m.buckets[start_index + 1] IN
         IF entry = EmptySlot \/ entry.is_tombstone
         THEN [m EXCEPT !.buckets[start_index + 1] = HashEntry(key, value),
                        !.size = @ + 1]
         ELSE IF entry.key = key
         THEN [m EXCEPT !.buckets[start_index + 1].value = value, !.size = @ + 1]
         ELSE put_loop_counts_update(m, key, value, hash_val, count + 1)

\* The while True loop of put. The probe index has period capacity in count and
\* the loop writes nothing before it leaves, so a loop that reaches
\* count = capacity never leaves.
put_loop(m, key, value, hash_val, count) ==
    LET start_index == ProbeIndex(m, hash_val, count) IN
    IF count >= m.capacity THEN [m EXCEPT !.fault = "nontermination"]
    ELSE IF start_index >= Len(m.buckets) THEN [m EXCEPT !.fault = "DynamicArrayException"]
    ELSE LET entry == m.buckets[start_index + 1] IN
         IF entry = EmptySlot \/ entry.is_tombstone
         THEN [m EXCEPT !.buckets[start_index + 1] = HashEntry(key, value),
                        !.size = @ + 1]
         ELSE IF entry.key = key
         THEN [m EXCEPT !.buckets[start_index + 1].value = value]
         ELSE put_loop(m, key, value, hash_val, count + 1)

\* put without the load test and the resize before probing.
put_without_resize(m, key, value) == put_loop(m, key, value, hash_function[key], 0)

\* put that resizes only when the load is above 0.5.
put_grows_above_half(m, key, value) ==
    LET grown == IF LoadAboveHalf(m) THEN resize_table(m, m.capacity * 2) ELSE m IN
    IF grown.fault # "none" THEN grown
    ELSE put_loop(grown, key, value, hash_function[key], 0)

put(m, key, value) ==
    LET grown == IF LoadAtLeastHalf(m) THEN resize_table(m, m.capacity * 2) ELSE m IN
    IF grown.fault # "none" THEN grown
    ELSE put_loop(grown, key, value, hash_function[key], 0)

\* The re-insertion loop of resize_table over the old array.
resize_loop(m, buckets_temp, capacity_temp, idx) ==
    IF idx >= capacity_temp \/ m.fault # "none" THEN m
    ELSE IF idx >= Len(buckets_temp) THEN [m EXCEPT !.fault = "DynamicArrayException"]
    ELSE LET bucket == buckets_temp[idx + 1] IN
         IF bucket # EmptySlot /\ ~bucket.is_tombstone
         THEN resize_loop(put(m, bucket.key, bucket.value), buckets_temp, capacity_temp, idx + 1)
         ELSE resize_loop(m, buckets_temp, capacity_temp, idx + 1)

\* resize_table without the test new_capacity < size.
resize_table_unchecked(m, new_capacity) ==
    LET prime_capacity == IF ~_is_prime(new_capacity)
                          THEN _next_prime(new_capacity)
                          ELSE new_capacity
        cleared == clear(m)
        fresh == [cleared EXCEPT !.buckets = NewBuckets(prime_capacity),
                                 !.size = 0,
                                 !.capacity = prime_capacity]
    IN resize_loop(fresh, m.buckets, m.capacity, 0)

resize_table(m, new_capacity) ==
    IF new_capacity < m.size THEN m
    ELSE LET prime_capacity == IF ~_is_prime(new_capacity)
                               THEN _next_prime(new_capacity)
                               ELSE new_capacity
             cleared == clear(m)
             fresh == [cleared EXCEPT !.buckets = NewBuckets(prime_capacity),
                                      !.size = 0,
                                      !.capacity = prime_capacity]
         IN resize_loop(fresh, m.buckets, m.capacity, 0)

\* The bounded loop of get: capacity + 1 probes, the first live match wins.
RECURSIVE get_loop(_, _, _, _)
get_loop(m, key, hash_val, count) ==
    LET start_index == ProbeIndex(m, hash_val, count) IN
    IF count > m.capacity THEN None
    ELSE LET entry == m.buckets[start_index + 1] IN
         IF entry # EmptySlot /\ entry.key = key /\ ~entry.is_tombstone
         THEN entry.value
         ELSE get_loop(m, key, hash_val, count + 1)

get(m, key) == get_loop(m, key, hash_function[key], 0)

contains_key(m, key) == get(m, key) # None

\* remove_loop without the test is_tombstone is False.
RECURSIVE remove_loop_any_match(_, _, _, _)
remove_loop_any_match(m, key, hash_val, count) ==
    LET start_index == ProbeIndex(m, hash_val, count) IN
    IF count > m.capacity THEN m
    ELSE LET entry == m.buckets[start_index + 1] IN
         IF entry # EmptySlot /\ entry.key = key
         THEN [m EXCEPT !.buckets[start_index + 1].is_tombstone = TRUE,
                        !.size = @ - 1]
         ELSE remove_loop_any_match(m, key, hash_val, count + 1)

\* remove_loop without the test of the key.
RECURSIVE remove_loop_any_key(_, _, _, _)
remove_loop_any_key(m, key, hash_val, count) ==
    LET start_index == ProbeIndex(m, hash_val, count) IN
    IF count > m.capacity THEN m
    ELSE LET entry == m.buckets[start_index + 1] IN
         IF entry # EmptySlot /\ ~entry.is_tombstone
         THEN [m EXCEPT !.buckets[start_index + 1].is_tombstone = TRUE,
                        !.size = @ - 1]
         ELSE remove_loop_any_key(m, key, hash_val, count + 1)

\* The bounded loop of remove: the first live match becomes a tombstone.
RECURSIVE remove_loop(_, _, _, _)
remove_loop(m, key, hash_val, count) ==
    LET start_index == ProbeIndex(m, hash_val, count) IN
    IF count > m.capacity THEN m
    ELSE LET entry == m.buckets[start_index + 1] IN
         IF entry # EmptySlot /\ entry.key = key /\ ~entry.is_tombstone
         THEN [m EXCEPT !.buckets[start_index + 1].is_tombstone = TRUE,
                        !.size = @ - 1]
         ELSE remove_loop(m, key, hash_val, count + 1)

remove(m, key) == remove_loop(m, key, hash_function[key], 0)

\* empty_buckets(): the slots 0 .. capacity - 1 that are None or a tombstone.
empty_buckets(m) ==
    Cardinality({idx \in 0..(m.capacity - 1) :
                    m.buckets[idx + 1] = EmptySlot \/ m.buckets[idx + 1].is_tombstone})

\* get_keys_and_values(): the pairs (key, value) of the slots idx, idx + 1, ...,
\* capacity - 1 that are not None and not a tombstone, in that order.
\* keys_and_values_loop without the test is_tombstone is False.
RECURSIVE keys_and_values_loop_any_entry(_, _)
keys_and_values_loop_any_entry(m, idx) ==
    IF idx >= m.capacity THEN <<>>
    ELSE LET bucket == m.buckets[idx + 1] IN
         IF bucket # EmptySlot
         THEN <<(<<bucket.key, bucket.value>>)>> \o keys_and_values_loop_any_entry(m, idx + 1)
         ELSE keys_and_values_loop_any_entry(m, idx + 1)

RECURSIVE keys_and_values_loop(_, _)
keys_and_values_loop(m, idx) ==
    IF idx >= m.capacity THEN <<>>
    ELSE LET bucket == m.buckets[idx + 1] IN
         IF bucket # EmptySlot /\ ~bucket.is_tombstone
         THEN <<(<<bucket.key, bucket.value>>)>> \o keys_and_values_loop(m, idx + 1)
         ELSE keys_and_values_loop(m, idx + 1)

get_keys_and_values(m) == keys_and_values_loop(m, 0)

\* What a call of __next__ gives: the object after it, the exception it raised
\* ("none" when it returned) and the entry it returned.
NextOutcome(m, raised, value) == [self |-> m, raised |-> raised, value |-> value]

\* __iter__(): the cursor goes to slot 0.
__iter__(m) == [m EXCEPT !.index = 0]

\* __next__ without the test is_tombstone is False.
next_any_entry(m) ==
    IF m.index = NoIndex
    THEN NextOutcome([m EXCEPT !.fault = "AttributeError"], "AttributeError", None)
    ELSE IF m.index >= Len(m.buckets)
    THEN NextOutcome([m EXCEPT !.fault = "DynamicArrayException"],
                     "DynamicArrayException", None)
    ELSE LET entry == m.buckets[m.index + 1] IN
         IF entry # EmptySlot
         THEN NextOutcome([m EXCEPT !.index = @ + 1], "none", entry)
         ELSE NextOutcome(m, "StopIteration", None)

\* __next__(): reads the slot at the cursor. The attribute _index does not
\* exist before __iter__; the array refuses an index at or past its length.
__next__(m) ==
    IF m.index = NoIndex
    THEN NextOutcome([m EXCEPT !.fault = "AttributeError"], "AttributeError", None)
    ELSE IF m.index >= Len(m.buckets)
    THEN NextOutcome([m EXCEPT !.fault = "DynamicArrayException"],
                     "DynamicArrayException", None)
    ELSE LET entry == m.buckets[m.index + 1] IN
         IF entry # EmptySlot /\ ~entry.is_tombstone
         THEN NextOutcome([m EXCEPT !.index = @ + 1], "none", entry)
         ELSE NextOutcome(m, "StopIteration", None)

\* for item in m: after __iter__, __next__ is called until it raises; the
\* entries it returned are collected in yielded. The loop ends normally on
\* StopIteration; any other exception leaves the loop as a failure.
RECURSIVE for_loop(_, _)
for_loop(m, yielded) ==
    LET o == __next__(m) IN
    IF o.raised = "none"
    THEN for_loop(o.self, Append(yielded, o.value))
    ELSE [self |-> o.self, raised |-> o.raised, yielded |-> yielded]

\* ---------------------------------------------------------------- actions
Call(op, key, value, new_capacity) ==
    [op |-> op, key |-> key, value |-> value, new_capacity |-> new_capacity]

\* The call returns (or fails) with the object's fields as in m.
Becomes(m) ==
    /\ m.capacity <= MaxCapacity
    /\ buckets' = m.buckets
    /\ capacity' = m.capacity
    /\ size' = m.size
    /\ index' = m.index
    /\ fault' = m.fault
    /\ result' = None
    /\ pre' = Self
    /\ UNCHANGED hash_function

\* HashMap(capacity, function)
Init ==
    /\ \E c \in InitCapacities :
          /\ capacity = _next_prime(c)
          /\ buckets = NewBuckets(_next_prime(c))
          /\ last = Call("__init__", None, None, c)
    /\ hash_function \in HashFunctions
    /\ size = 0
    /\ index = NoIndex
    /\ fault = "none"
    /\ result = None
    /\ pre = Self

Put ==
    \E key \in Keys, value \in Values :
        /\ fault = "none"
        /\ \E m \in {put(Self, key, value)} : Becomes(m)
        /\ last' = Call("put", key, value, None)

Remove ==
    \E key \in Keys :
        /\ fault = "none"
        /\ \E m \in {remove(Self, key)} : Becomes(m)
        /\ last' = Call("remove", key, None, None)

Clear ==
    /\ fault = "none"
    /\ \E m \in {clear(Self)} : Becomes(m)
    /\ last' = Call("clear", None, None, None)

ResizeTable ==
    \E new_capacity \in NewCapacities :
        /\ fault = "none"
        /\ \E m \in {resize_table(Self, new_capacity)} : Becomes(m)
        /\ last' = Call("resize_table", None, None, new_capacity)

Next == Put \/ Remove \/ Clear \/ ResizeTable

Spec == Init /\ [][Next]_vars

\* A call that leaves the object's fields as in m and returns value.
Answers(m, value) ==
    /\ m.capacity <= MaxCapacity
    /\ buckets' = m.buckets
    /\ capacity' = m.capacity
    /\ size' = m.size
    /\ index' = m.index
    /\ fault' = m.fault
    /\ result' = value
    /\ pre' = Self
    /\ UNCHANGED hash_function

Get ==
    \E key \in Keys :
        /\ fault = "none"
        /\ Answers(Self, get(Self, key))
        /\ last' = Call("get", key, None, None)

EmptyBuckets ==
    /\ fault = "none"
    /\ Answers(Self, empty_buckets(Self))
    /\ last' = Call("empty_buckets", None, None, None)

GetKeysAndValues ==
    /\ fault = "none"
    /\ Answers(Self, get_keys_and_values(Self))
    /\ last' = Call("get_keys_and_values", None, None, None)

\* iter(m): returns the object itself, with the cursor at slot 0.
Iter ==
    /\ fault = "none"
    /\ Answers(__iter__(Self), None)
    /\ last' = Call("__iter__", None, None, None)

\* next(m): returns the entry at the cursor or raises.
IterNext ==
    /\ fault = "none"
    /\ \E o \in {__next__(Self)} :
          Answers(o.self, [raised |-> o.raised, value |-> o.value])
    /\ last' = Call("__next__", None, None, None)

\* for item in m: ... with a body that does not touch m.
ForLoop ==
    /\ fault = "none"
    /\ \E o \in {for_loop(__iter__(Self), <<>>)} :
          Answers(o.self, [raised |-> o.raised, value |-> o.yielded])
    /\ last' = Call("for", None, None, None)

\* The mutating methods and the queries.
NextQuery ==
    \/ Put \/ Remove \/ Clear \/ ResizeTable
    \/ Get \/ EmptyBuckets \/ GetKeysAndValues

SpecQuery == Init /\ [][NextQuery]_vars

\* The mutating methods, the queries and the iteration protocol.
NextIter ==
    \/ Put \/ Remove \/ Clear \/ ResizeTable
    \/ Get \/ EmptyBuckets \/ GetKeysAndValues
    \/ Iter \/ IterNext \/ ForLoop

SpecIter == Init /\ [][NextIter]_vars

\* HashMap._is_prime(n), the static method called on its own; the argument is
\* recorded in the capacity field of the call.
IsPrimeCall ==
    \E n \in PrimeArgs :
        /\ fault = "none"
        /\ Answers(Self, _is_prime(n))
        /\ last' = Call("_is_prime", None, None, n)

NextIsPrime == IsPrimeCall

SpecPrime == Init /\ [][NextIsPrime]_vars

\* ------------------------------------------------------- claim vocabulary
\* n is a prime number, by the definition of primality.
IsPrime(n) == n > 1 /\ \A d \in 2..(n - 1) : n % d # 0

\* The slots of array b that hold a tombstone.
Tombstones(b) == {i \in 1..Len(b) : b[i].is_tombstone}

\* The slots of array b that are Occupied: not None and not a tombstone.
Occupied(b) == {i \in 1..Len(b) : b[i] # EmptySlot /\ ~b[i].is_tombstone}

\* Key k is live in m: get(k) returns a value.
Live(m, k) == get(m, k) # None

\* The last call returned (it raised nothing and did not hang).
Returned(op) == last.op = op /\ fault = "none"

\* ---------------------------------------------------------------- C1
\* C1: immediately after any put returns, table_load() = size / capacity is
\* at most 0.5.
C1_LoadAfterPut == Returned("put") => ~LoadAboveHalf(Self)

\* ---------------------------------------------------------------- C2
\* C2: round trip: in every reachable state, put(k, v) immediately followed by
\* get(k) returns v.
C2_RoundTrip == Returned("put") => get(Self, last.key) = last.value

\* A put that changed the value of a live key whose home slot holds another
\* key or a tombstone, in a table that has a tombstone.
C2_Witness ==
    /\ Returned("put")
    /\ Live(pre, last.key)
    /\ get(pre, last.key) # last.value
    /\ pre.buckets[ProbeIndex(pre, hash_function[last.key], 0) + 1].key # last.key
    /\ Tombstones(pre.buckets) # {}

\* ---------------------------------------------------------------- C3
\* C3: update semantics: when key k is already live, put(k, v2) leaves
\* get_size() unchanged and a following get(k) returns v2, also when keys on
\* k's probe sequence were removed earlier and left tombstones.
C3_UpdateKeepsSize ==
    (Returned("put") /\ Live(pre, last.key))
        => (size = pre.size /\ get(Self, last.key) = last.value)

\* ---------------------------------------------------------------- C4
\* C4: deletion semantics: in every reachable state, for every key k and value
\* v, after put(k, v); remove(k) contains_key(k) is false and get(k) is absent.
C4_PutRemoveAbsent ==
    fault = "none" =>
        \A k \in Keys, v \in Values :
            LET after == remove(put(Self, k, v), k) IN
            /\ ~contains_key(after, k)
            /\ get(after, k) = None

\* ---------------------------------------------------------------- C5
\* C5: resize preserves content: for every c >= get_size(), resize_table(c)
\* leaves get(k) unchanged for every key that was live, leaves every other key
\* absent, and leaves get_size() unchanged.
C5_ResizePreserves ==
    (Returned("resize_table") /\ last.new_capacity >= pre.size)
        => /\ size = pre.size
           /\ \A k \in Keys : get(Self, k) = get(pre, k)

\* ---------------------------------------------------------------- C6
\* What a dictionary answers for key k after the last call, when it answered
\* get(pre, k) before it.
DictAfter(k) ==
    CASE last.op = "put" -> IF k = last.key THEN last.value ELSE get(pre, k)
      [] last.op = "remove" -> IF k = last.key THEN None ELSE get(pre, k)
      [] last.op = "resize_table" -> get(pre, k)
      [] OTHER -> None

\* C6: the table behaves as a dictionary: after any sequence of put, remove,
\* clear and resize_table, get(k) is the value of the most recent put(k, _) not
\* followed by remove(k) or clear(), and absent otherwise, and contains_key(k)
\* is true exactly in the first case. Stated call by call: each call changes
\* the answers of get as it changes a dictionary. The first call after which
\* the table and the dictionary of the calls disagree is a call that breaks
\* this, and the first call that breaks this makes them disagree.
C6_Dictionary ==
    fault = "none" =>
        \A k \in Keys :
            /\ get(Self, k) = DictAfter(k)
            /\ contains_key(Self, k) <=> (DictAfter(k) # None)

\* ---------------------------------------------------------------- C7
\* C7: prime invariant: get_capacity() is always a prime number; after
\* construction with requested capacity c0 it is >= c0, and after an accepted
\* resize_table(c) (c >= size) it is >= c.
C7_PrimeCapacity ==
    /\ IsPrime(capacity)
    /\ last.op = "__init__" => capacity >= last.new_capacity
    /\ (Returned("resize_table") /\ last.new_capacity >= pre.size)
           => capacity >= last.new_capacity

\* An accepted resize_table(c) with c not prime that changed the capacity of a
\* table holding entries.
C7_Witness ==
    /\ Returned("resize_table")
    /\ last.new_capacity >= pre.size
    /\ pre.size > 0
    /\ ~IsPrime(last.new_capacity)
    /\ capacity # pre.capacity

\* ---------------------------------------------------------------- C8
\* C8: after any resize_table(c) call returns, for any c, table_load() is at
\* most 0.5.
C8_LoadAfterResize == Returned("resize_table") => ~LoadAboveHalf(Self)

\* ---------------------------------------------------------------- C9
\* C9: resize_table(c) with c < get_size() changes nothing: capacity, size,
\* every slot and every get(k) are as before, and no error is raised.
C9_InvalidResizeNoOp ==
    (last.op = "resize_table" /\ last.new_capacity < pre.size)
        => /\ fault = "none"
           /\ capacity = pre.capacity
           /\ size = pre.size
           /\ buckets = pre.buckets
           /\ \A k \in Keys : get(Self, k) = get(pre, k)

\* A rejected resize_table(c) on a table with a tombstone, which a rebuild
\* would have dropped.
C9_Witness ==
    /\ last.op = "resize_table"
    /\ last.new_capacity < pre.size
    /\ Tombstones(pre.buckets) # {}

\* ---------------------------------------------------------------- C10
\* C10: remove(k) of a key that is not live (never inserted, already removed,
\* or present only as a tombstone) raises no error and leaves get_size(),
\* get_capacity() and every slot unchanged.
C10_RemoveAbsentNoOp ==
    (last.op = "remove" /\ ~Live(pre, last.key))
        => /\ fault = "none"
           /\ size = pre.size
           /\ capacity = pre.capacity
           /\ buckets = pre.buckets

\* remove(k) where k is present only as a tombstone and another key is live.
C10_Witness ==
    /\ last.op = "remove"
    /\ ~Live(pre, last.key)
    /\ \E i \in Tombstones(pre.buckets) : pre.buckets[i].key = last.key
    /\ pre.size > 0

\* ---------------------------------------------------------------- C11
\* C11: size accounting: in every reachable state get_size() is the number of
\* Occupied slots, so empty_buckets() + get_size() = get_capacity() and
\* 0 <= get_size() <= get_capacity().
C11_SizeAccounting ==
    fault = "none" =>
        /\ size = Cardinality(Occupied(buckets))
        /\ empty_buckets(Self) + size = capacity
        /\ 0 <= size /\ size <= capacity

\* A table with two Occupied slots and a tombstone, after an update of a key.
C11_Witness ==
    /\ Returned("put")
    /\ Live(pre, last.key)
    /\ size = 2
    /\ Tombstones(buckets) # {}

\* ---------------------------------------------------------------- C12
\* C12: clear() in any reachable state leaves get_capacity() unchanged, sets
\* get_size() to 0 and leaves a slot array of exactly get_capacity() slots, all
\* Empty, so every get(k) is absent.
C12_ClearEmpties ==
    Returned("clear") =>
        /\ capacity = pre.capacity
        /\ size = 0
        /\ Len(buckets) = capacity
        /\ \A i \in 1..Len(buckets) : buckets[i] = EmptySlot
        /\ \A k \in Keys : get(Self, k) = None

\* ---------------------------------------------------------------- C13
\* The number of Occupied slots of array b at or before slot i.
Rank(b, i) == Cardinality({j \in Occupied(b) : j <= i})

\* C13: get_keys_and_values() returns, in ascending slot order, exactly one
\* (key, value) pair for each Occupied slot and nothing for an Empty or
\* Tombstoned slot; its length is get_size() and the table is left unchanged.
C13_KeysAndValues ==
    last.op = "get_keys_and_values" =>
        /\ fault = "none"
        /\ Len(result) = Cardinality(Occupied(buckets))
        /\ Len(result) = size
        /\ \A i \in Occupied(buckets) :
              result[Rank(buckets, i)] = <<buckets[i].key, buckets[i].value>>
        /\ Self = pre

\* get_keys_and_values() on a table with two entries and a tombstone in a slot
\* before the second entry.
C13_Witness ==
    /\ Returned("get_keys_and_values")
    /\ Len(result) = 2
    /\ \E t \in Tombstones(buckets), i \in Occupied(buckets) : t < i

\* ---------------------------------------------------------------- C14
\* The smallest index whose slot in m is not Occupied; the array's length when
\* every slot is Occupied.
FirstGap(m) ==
    CHOOSE j \in 0..Len(m.buckets) :
        /\ \A i \in 1..j : i \in Occupied(m.buckets)
        /\ j < Len(m.buckets) => (j + 1) \notin Occupied(m.buckets)

\* The entries of slots 0 .. j - 1 of m, in ascending order.
FirstEntries(m, j) == [i \in 1..j |-> m.buckets[i]]

\* C14: iteration protocol: a traversal started with __iter__ and stepped with
\* __next__, with no mutation in between, yields exactly the entries of slots
\* 0 .. j - 1 in ascending order, j the smallest index whose slot is Empty or
\* Tombstoned, and then signals the end; such a j < capacity exists in every
\* reachable state, so the traversal ends with StopIteration and never steps
\* past the last slot. Stated for the traversal of the current table, for a
\* for loop that has run, and for one __next__ whose cursor is where such a
\* traversal can have left it.
C14_Iteration ==
    LET j == FirstGap(Self)
        t == for_loop(__iter__(Self), <<>>)
    IN /\ j < capacity
       /\ t.raised = "StopIteration"
       /\ t.yielded = FirstEntries(Self, j)
       /\ t.self.index = j
       /\ last.op = "for" =>
             /\ fault = "none"
             /\ result.raised = "StopIteration"
             /\ result.value = FirstEntries(pre, FirstGap(pre))
             /\ index = FirstGap(pre)
             /\ Self = [pre EXCEPT !.index = index]
       /\ (last.op = "__next__" /\ pre.index # NoIndex /\ pre.index <= FirstGap(pre)) =>
             /\ fault = "none"
             /\ IF pre.index < FirstGap(pre)
                THEN /\ result.raised = "none"
                     /\ result.value = pre.buckets[pre.index + 1]
                     /\ index = pre.index + 1
                ELSE /\ result.raised = "StopIteration"
                     /\ index = pre.index
             /\ Self = [pre EXCEPT !.index = index]

\* A for loop that yielded an entry and stopped at a tombstone with a live
\* entry behind it.
C14_Witness ==
    /\ Returned("for")
    /\ Len(result.value) >= 1
    /\ (index + 1) \in Tombstones(buckets)
    /\ \E i \in Occupied(buckets) : i > index + 1

\* ---------------------------------------------------------------- C15
\* The table put probes: the table itself, or the table resize_table(2 *
\* capacity) leaves when the load on entry is at least 0.5.
Grown(m) == IF LoadAtLeastHalf(m) THEN resize_table(m, m.capacity * 2) ELSE m

\* Probe number i of the sequence of hash_val meets a slot where the loop of
\* put leaves: Empty, Tombstoned, or Occupied with key.
Stops(m, key, hash_val, i) ==
    LET entry == m.buckets[ProbeIndex(m, hash_val, i) + 1] IN
    entry = EmptySlot \/ entry.is_tombstone \/ entry.key = key

\* C15: put always terminates: in every reachable state and for every hash
\* value, the probe loop of put reaches an Empty slot, a Tombstoned slot or an
\* Occupied slot with the same key within fewer than capacity probes of the
\* sequence (h + i * i) mod capacity, also in the puts resize_table issues
\* during a rebuild. No call hangs; no resize_table of a reachable table
\* hangs, the one put issues before it probes included; and in the table put
\* probes, one of the probes 0 .. capacity - 2 stops and the loop leaves, for
\* every key and every residue of a hash value.
C15_PutTerminates ==
    /\ fault # "nontermination"
    /\ fault = "none" =>
          /\ \A c \in NewCapacities : resize_table(Self, c).fault = "none"
          /\ LET g == Grown(Self) IN
                /\ g.fault = "none"
                /\ \A k \in Keys, h \in 0..(g.capacity - 1) :
                      /\ \E i \in 0..(g.capacity - 2) : Stops(g, k, h, i)
                      /\ put_loop(g, k, None, h, 0).fault = "none"

\* A put that entered at load 0.5 or more, rebuilt the table and then probed
\* past an Occupied slot holding another key.
C15_Witness ==
    /\ Returned("put")
    /\ LoadAtLeastHalf(pre)
    /\ capacity # pre.capacity
    /\ pre.size > 0
    /\ LET home == buckets[ProbeIndex(Self, hash_function[last.key], 0) + 1] IN
          home # EmptySlot /\ ~home.is_tombstone /\ home.key # last.key

\* ---------------------------------------------------------------- C16
\* C16: no out-of-range slot access: for a table constructed with a positive
\* capacity, no sequence of put, get, remove, resize_table, clear,
\* empty_buckets, get_keys_and_values and iteration steps (__iter__ followed by
\* __next__ calls, mutating calls allowed between the steps) reads or writes
\* the slot array at an index outside 0 .. length - 1. The methods other than
\* __next__ index the array below capacity, which ArrayHoldsCapacity bounds by
\* the length.
ArrayHoldsCapacity == capacity <= Len(buckets)

C16_NoOutOfRange ==
    /\ ArrayHoldsCapacity
    /\ fault # "DynamicArrayException"

\* ---------------------------------------------------------------- C17
\* The smallest prime number >= n (there is one up to 2 * n).
SmallestPrimeAtLeast(n) ==
    CHOOSE p \in n..(2 * n) : IsPrime(p) /\ \A q \in n..(p - 1) : ~IsPrime(q)

\* The capacity the growth policy asks of a put entered with the fields of m.
PolicyCapacity(m) ==
    IF 2 * m.size < m.capacity THEN m.capacity ELSE SmallestPrimeAtLeast(2 * m.capacity)

\* C17: growth policy: a put entered with size / capacity < 0.5 leaves
\* get_capacity() unchanged; a put entered with size / capacity >= 0.5, the key
\* new or already present, returns with get_capacity() the smallest prime
\* >= 2 * (capacity on entry), having resized exactly once before it placed the
\* entry. Stated for the put that has run and for every put of the current
\* table; the table rebuilt by the one resize has the final capacity.
C17_GrowthPolicy ==
    /\ last.op = "put" =>
          /\ fault = "none"
          /\ capacity = PolicyCapacity(pre)
          /\ Grown(pre).capacity = capacity
    /\ fault = "none" =>
          \A k \in Keys, v \in Values :
              LET after == put(Self, k, v) IN
              /\ after.fault = "none"
              /\ after.capacity = PolicyCapacity(Self)

\* A put of a key already present, entered at load exactly 0.5, that grew the
\* table.
C17_Witness ==
    /\ Returned("put")
    /\ 2 * pre.size = pre.capacity
    /\ Live(pre, last.key)
    /\ capacity > pre.capacity

\* ---------------------------------------------------------------- C18
\* The slots in which the array differs from the array on entry.
ChangedSlots == {i \in 1..Len(buckets) : buckets[i] # pre.buckets[i]}

\* C18: remove(k) does not disturb other keys: in every reachable state,
\* remove(k) leaves get_capacity() unchanged, changes at most one slot (an
\* Occupied slot holding k, which becomes Tombstoned), decrements get_size() by
\* exactly 1 when k was live, and leaves get(k') unchanged for every key k'
\* other than k, keys that share k's probe sequence included.
C18_RemoveFrame ==
    last.op = "remove" =>
        /\ fault = "none"
        /\ capacity = pre.capacity
        /\ Len(buckets) = Len(pre.buckets)
        /\ Cardinality(ChangedSlots) <= 1
        /\ \A i \in ChangedSlots :
              /\ i \in Occupied(pre.buckets)
              /\ pre.buckets[i].key = last.key
              /\ buckets[i] = [pre.buckets[i] EXCEPT !.is_tombstone = TRUE]
        /\ Live(pre, last.key) => (size = pre.size - 1 /\ ChangedSlots # {})
        /\ \A k \in Keys \ {last.key} : get(Self, k) = get(pre, k)

\* remove(k) of a live k at its home slot, with another live key that has the
\* same home slot and lies further along the probe sequence.
C18_Witness ==
    /\ Returned("remove")
    /\ Live(pre, last.key)
    /\ (ProbeIndex(Self, hash_function[last.key], 0) + 1) \in ChangedSlots
    /\ \E k \in Keys \ {last.key} :
          /\ hash_function[k] = hash_function[last.key]
          /\ Live(Self, k)

\* ---------------------------------------------------------------- C19
\* C19: key uniqueness: in every reachable state no two Occupied slots hold
\* the same key, so get_size() is the number of distinct live keys; a put(k, _)
\* that meets a Tombstoned slot on k's probe sequence before the slot that
\* holds k does not create a second live entry for k.
C19_KeyUniqueness ==
    fault = "none" =>
        /\ \A i, j \in Occupied(buckets) : buckets[i].key = buckets[j].key => i = j
        /\ size = Cardinality({k \in Keys : Live(Self, k)})

\* ---------------------------------------------------------------- C20
\* C20: _is_prime(n) returns true exactly when n is a prime number, for every
\* integer n of a range that includes zero and negative numbers: false for
\* every n <= 1 and every even n > 2, true for 2 and 3.
C20_IsPrimeExact ==
    last.op = "_is_prime" => (result <=> IsPrime(last.new_capacity))

====
